---- MODULE Spec2Model ----
(***************************************************************************)
(* A model of libhash: the generic {key,yield} chained hash table of       *)
(* hash.c (the ht_raw functions), the object registry ho[] of hash.h, the  *)
(* LCG, Zobrist and MD5 hash functions and the HMAC-MD5 key of util.c.     *)
(*                                                                         *)
(* uint32_t data (keys, yields, addresses, hash values) are pairs          *)
(* <<hi, lo>> of 16-bit limbs, so that the arithmetic keeps its 32-bit     *)
(* width.  Bucket counts, entry counts and bucket indices never exceed     *)
(* 2^30 and are plain integers.                                            *)
(***************************************************************************)
EXTENDS Integers, Naturals, Sequences, FiniteSets, TLC

VARIABLES
    config,     \* the build, the ht_raw_init call and the caller's objects (see Configs)
    ht,         \* the hash table frame (hash_table_t)
    bucket,     \* ht->bucket: bucket index -> first item of the chain (or NULL)
    items,      \* the heap of hash_table_item_t: item address -> item
    pc,         \* "idle", "growing" inside the while loop of ht_raw_insert, "aborted", "hung"
    call,       \* the arguments of the ht_raw_insert call in progress
    last,       \* the last operation completed and the value it returned
    net,        \* history: inserts that returned 0 minus the sum of remove's returns
    pairs,      \* history: the pairs inserted with 0 and not removed since
    nb0,        \* history: nbuckets when the insert in progress found the table full
    nrebuilds,  \* history: rebuilds run by the insert in progress (saturating)
    arg,        \* the input of a function applied alone; the hash functions and HMAC key
    ret,        \* the output of a function applied alone; the last hash function call
    freed,      \* history: the caller's objects that have been passed to free()
    recent      \* history: the items inserted since the last rebuild, oldest first

vars == <<config, ht, bucket, items, pc, call, last, net, pairs, nb0, nrebuilds, arg, ret,
          freed, recent>>

(***************************************************************************)
(* 32-bit unsigned arithmetic on <<hi, lo>> limbs.                         *)
(***************************************************************************)
W8 == 16 * 16
W16 == W8 * W8

U32(n) == <<n \div W16, n % W16>>

Gt32(a, b) == a[1] > b[1] \/ (a[1] = b[1] /\ a[2] > b[2])

Lt32(a, b) == Gt32(b, a)

Add32(a, b) ==
    LET lo == a[2] + b[2]
        hi == a[1] + b[1] + (lo \div W16)
    IN  <<hi % W16, lo % W16>>

\* x * y for 16-bit x, y, as a 32-bit value
Mul16(x, y) ==
    LET p1 == (x \div W8) * y
        p0 == (x % W8) * y
    IN  Add32(<<p1 \div W8, (p1 % W8) * W8>>, <<p0 \div W16, p0 % W16>>)

\* (a * b) mod 2^32
Mul32(a, b) ==
    LET ll == Mul16(a[2], b[2])
        cross == (Mul16(a[1], b[2])[2] + Mul16(a[2], b[1])[2]) % W16
    IN  <<(ll[1] + cross) % W16, ll[2]>>

\* (a << 8) mod 2^32
Shl8(a) == <<((a[1] % W8) * W8) + (a[2] \div W8), (a[2] % W8) * W8>>

RECURSIVE ShlBytes(_, _)
\* (a << 8n) mod 2^32
ShlBytes(a, n) == IF n = 0 THEN a ELSE ShlBytes(Shl8(a), n - 1)

\* a >> 24
Shr24(a) == a[1] \div W8

RECURSIVE Xor16(_, _)
Xor16(x, y) ==
    IF x = 0 THEN y
    ELSE IF y = 0 THEN x
    ELSE ((x + y) % 2) + 2 * Xor16(x \div 2, y \div 2)

Xor32(a, b) == <<Xor16(a[1], b[1]), Xor16(a[2], b[2])>>

RECURSIVE And16(_, _)
And16(x, y) ==
    IF x = 0 \/ y = 0 THEN 0
    ELSE ((x % 2) * (y % 2)) + 2 * And16(x \div 2, y \div 2)

\* a & m for a 32-bit a and a mask m < 2^31, as an integer
AndMask(a, m) == And16(a[1], m \div W16) * W16 + And16(a[2], m % W16)

(***************************************************************************)
(* The object registry ho[] (hash.h) and the object functions (hash.c).    *)
(***************************************************************************)
NULL == <<>>

\* an optional object argument (void *): NULL, or <<o>> pointing to o
NoObj == NULL
Obj(o) == <<o>>

ho_len(type) == IF type = "CONNECTION" THEN 13 ELSE IF type = "CONNINFO" THEN 36 ELSE 4

\* conn_should_swap deciding by the addresses alone
conn_should_swap_AddrOnly(conn) == Gt32(conn.saddr, conn.daddr)

conn_should_swap(conn) ==
    IF Gt32(conn.saddr, conn.daddr) THEN TRUE
    ELSE IF Lt32(conn.saddr, conn.daddr) THEN FALSE
    ELSE conn.sport > conn.dport

\* conncmp comparing the ports in the order given
conncmp_PortsAsGiven(c1, c2) ==
    IF /\ c1.saddr = c2.saddr /\ c1.daddr = c2.daddr
       /\ c1.sport = c2.sport /\ c1.dport = c2.dport /\ c1.proto = c2.proto
    THEN 0
    ELSE IF /\ c1.saddr = c2.daddr /\ c1.daddr = c2.saddr
            /\ c1.sport = c2.dport /\ c1.dport = c2.sport /\ c1.proto = c2.proto
    THEN 0
    ELSE
    LET swap1 == conn_should_swap(c1)
        swap2 == conn_should_swap(c2)
        a1 == IF ~swap1 THEN c1.saddr ELSE c1.daddr
        a2 == IF ~swap2 THEN c2.saddr ELSE c2.daddr
        b1 == IF swap1 THEN c1.saddr ELSE c1.daddr
        b2 == IF swap2 THEN c2.saddr ELSE c2.daddr
        p1 == c1.sport
        p2 == c2.sport
        q1 == c1.dport
        q2 == c2.dport
    IN  IF Gt32(a1, a2) THEN -1
        ELSE IF Lt32(a1, a2) THEN 1
        ELSE IF Gt32(b1, b2) THEN -1
        ELSE IF Lt32(b1, b2) THEN 1
        ELSE IF p1 > p2 THEN -1
        ELSE IF p1 < p2 THEN 1
        ELSE IF q1 > q2 THEN -1
        ELSE IF q1 < q2 THEN 1
        ELSE IF c1.proto > c2.proto THEN -1
        ELSE IF c1.proto < c2.proto THEN 1
        ELSE 0

conncmp(c1, c2) ==
    IF /\ c1.saddr = c2.saddr /\ c1.daddr = c2.daddr
       /\ c1.sport = c2.sport /\ c1.dport = c2.dport /\ c1.proto = c2.proto
    THEN 0
    ELSE IF /\ c1.saddr = c2.daddr /\ c1.daddr = c2.saddr
            /\ c1.sport = c2.dport /\ c1.dport = c2.sport /\ c1.proto = c2.proto
    THEN 0
    ELSE
    LET swap1 == conn_should_swap(c1)
        swap2 == conn_should_swap(c2)
        a1 == IF ~swap1 THEN c1.saddr ELSE c1.daddr
        a2 == IF ~swap2 THEN c2.saddr ELSE c2.daddr
        b1 == IF swap1 THEN c1.saddr ELSE c1.daddr
        b2 == IF swap2 THEN c2.saddr ELSE c2.daddr
        p1 == IF ~swap1 THEN c1.sport ELSE c1.dport
        p2 == IF ~swap2 THEN c2.sport ELSE c2.dport
        q1 == IF swap1 THEN c1.sport ELSE c1.dport
        q2 == IF swap2 THEN c2.sport ELSE c2.dport
    IN  IF Gt32(a1, a2) THEN -1
        ELSE IF Lt32(a1, a2) THEN 1
        ELSE IF Gt32(b1, b2) THEN -1
        ELSE IF Lt32(b1, b2) THEN 1
        ELSE IF p1 > p2 THEN -1
        ELSE IF p1 < p2 THEN 1
        ELSE IF q1 > q2 THEN -1
        ELSE IF q1 < q2 THEN 1
        ELSE IF c1.proto > c2.proto THEN -1
        ELSE IF c1.proto < c2.proto THEN 1
        ELSE 0

\* the 4 bytes (word<<0)>>24, (word<<8)>>24, (word<<16)>>24, (word<<24)>>24
WordBytes(word) == [i \in 1..4 |-> Shr24(ShlBytes(word, i - 1))]

\* conn_marshall writing the ports in the order given
conn_marshall_PortsAsGiven(conn) ==
    LET swap == conn_should_swap(conn)
        w1 == IF ~swap THEN conn.saddr ELSE conn.daddr
        w2 == IF swap THEN conn.saddr ELSE conn.daddr
        w3 == <<conn.sport, conn.dport>>
    IN  WordBytes(w1) \o WordBytes(w2) \o WordBytes(w3) \o <<conn.proto>>

conn_marshall(conn) ==
    LET swap == conn_should_swap(conn)
        w1 == IF ~swap THEN conn.saddr ELSE conn.daddr
        w2 == IF swap THEN conn.saddr ELSE conn.daddr
        w3 == IF ~swap THEN <<conn.sport, conn.dport>> ELSE <<conn.dport, conn.sport>>
    IN  WordBytes(w1) \o WordBytes(w2) \o WordBytes(w3) \o <<conn.proto>>

uint32cmp(u1, u2) ==
    IF Gt32(u1, u2) THEN -1
    ELSE IF Lt32(u1, u2) THEN 1
    ELSE 0

\* the bytes of u in memory order, on build b
uint32_marshall(b, u) ==
    IF b.little_endian
    THEN <<u[2] % W8, u[2] \div W8, u[1] % W8, u[1] \div W8>>
    ELSE <<u[1] \div W8, u[1] % W8, u[2] \div W8, u[2] % W8>>

\* what a call of abort() "returns": the process is killed by SIGABRT
Abort == <<"SIGABRT">>

\* conninfocmp prints "This function should not be called" and calls abort()
conninfocmp(o1, o2) == Abort

ho_cmp(type, o1, o2) ==
    IF type = "CONNECTION" THEN conncmp(o1, o2)
    ELSE IF type = "CONNINFO" THEN conninfocmp(o1, o2)
    ELSE uint32cmp(o1, o2)

\* the types of ho[] whose cmp does not return
ho_cmp_aborts(type) == type = "CONNINFO"

ho_marshall(b, type, o) ==
    IF type = "CONNECTION" THEN conn_marshall(o) ELSE uint32_marshall(b, o)

(***************************************************************************)
(* The LCG hash function.                                                  *)
(***************************************************************************)
LCG_A == 1664525
LCG_B == 1013904223

\* the value of a char holding byte c, converted to uint32_t, on build b
CharToU32(b, c) ==
    IF b.char_signed /\ c >= 128 THEN <<W16 - 1, W16 - W8 + c>> ELSE <<0, c>>

RECURSIVE LcgLoop(_, _, _, _, _, _)
LcgLoop(b, key, len, i, tmp, hashvalue) ==
    IF i >= len THEN hashvalue
    ELSE
    CHOOSE r \in
        { IF ((i + 1) % 4 = 0) \/ (i = len - 1)
          THEN CHOOSE r2 \in
                   { LcgLoop(b, key, len, i + 1, <<0, 0>>, h1) :
                       h1 \in {Xor32(hashvalue, Add32(Mul32(t1, U32(LCG_A)), U32(LCG_B)))} }
                   : TRUE
          ELSE LcgLoop(b, key, len, i + 1, t1, hashvalue) :
              t1 \in {Add32(Shl8(tmp), CharToU32(b, key[i + 1]))} } : TRUE

hf_lcg_generic(b, key, len) == LcgLoop(b, key, len, 0, <<0, 0>>, <<0, 0>>)

hf_lcg(b, type, key) == hf_lcg_generic(b, ho_marshall(b, type, key), ho_len(type))

(***************************************************************************)
(* The inputs the model draws from.                                        *)
(***************************************************************************)
MaxRebuilds == 2
MaxKey == 9
MaxQueryKey == 3

Conn(sa, da, sp, dp, pr) ==
    [saddr |-> sa, daddr |-> da, sport |-> sp, dport |-> dp, proto |-> pr]

\* conn1 and conn2 of test_1, conn1 reversed, and a tuple with equal addresses
Conn1  == Conn(<<258, 772>>, <<1286, 1800>>, 101, 102, 11)
Conn1R == Conn(<<1286, 1800>>, <<258, 772>>, 102, 101, 11)
Conn2  == Conn(<<4370, 4884>>, <<5398, 5912>>, 201, 202, 22)
Conn3  == Conn(<<258, 772>>, <<258, 772>>, 300, 200, 11)

\* a connection between the addresses of conn1 that hashes to 15, the last bucket of
\* a table of 16, and its reverse
Conn4  == Conn(<<258, 772>>, <<1286, 1800>>, 101, 104, 17)
Conn4R == Conn(<<1286, 1800>>, <<258, 772>>, 104, 101, 17)

\* the builds, the ht_raw_init calls and the caller's objects the model starts from:
\* a little-endian build where every uint32 key falls into one bucket, the growth
\* scenario (ratio 0.5, 16 buckets) on a big-endian build where the keys spread,
\* and connection keys under a threshold of 2.5 entries
Configs ==
    { [key |-> "UINT32", little_endian |-> TRUE, char_signed |-> TRUE,
       copy_keys |-> 1, copy_yields |-> 1, history |-> FALSE, yield |-> "UINT32",
       nbuckets |-> U32(16), ratio |-> <<3, 16>>,
       keys |-> {U32(1), U32(2)}, yields |-> {U32(1), U32(2), U32(11)}],
      [key |-> "UINT32", little_endian |-> FALSE, char_signed |-> FALSE,
       copy_keys |-> 1, copy_yields |-> 1, history |-> FALSE, yield |-> "UINT32",
       nbuckets |-> U32(0), ratio |-> <<1, 2>>,
       keys |-> {U32(k) : k \in 1..MaxKey}, yields |-> {U32(1)}],
      [key |-> "CONNECTION", little_endian |-> TRUE, char_signed |-> TRUE,
       copy_keys |-> 1, copy_yields |-> 1, history |-> FALSE, yield |-> "UINT32",
       nbuckets |-> U32(40), ratio |-> <<5, 64>>,
       keys |-> {Conn1, Conn1R, Conn2, Conn3}, yields |-> {U32(1), U32(11)}] }

\* tables that store the caller's own key objects, yield objects or both
\* (copy_keys = 0, copy_yields = 0)
BorrowConfigs ==
    { [key |-> "UINT32", little_endian |-> TRUE, char_signed |-> TRUE,
       copy_keys |-> copy[1], copy_yields |-> copy[2], history |-> FALSE, yield |-> "UINT32",
       nbuckets |-> U32(16), ratio |-> <<3, 16>>,
       keys |-> {U32(1), U32(2)}, yields |-> {U32(1), U32(2)}] :
        copy \in {<<0, 0>>, <<0, 1>>, <<1, 0>>} }

\* the tables the queries are run on, with the order of the inserts recorded: two
\* uint32 keys that share bucket 12 of 16, uint32 keys in a bucket each, and
\* connections in bucket 7 and in bucket 15 of 16
QueryConfigs ==
    { [key |-> "UINT32", little_endian |-> FALSE, char_signed |-> FALSE,
       copy_keys |-> 1, copy_yields |-> 1, history |-> TRUE, yield |-> "UINT32",
       nbuckets |-> U32(16), ratio |-> <<3, 16>>,
       keys |-> {U32(1), U32(17)}, yields |-> {U32(1), U32(2)}],
      [key |-> "UINT32", little_endian |-> FALSE, char_signed |-> FALSE,
       copy_keys |-> 1, copy_yields |-> 1, history |-> TRUE, yield |-> "UINT32",
       nbuckets |-> U32(16), ratio |-> <<1, 2>>,
       keys |-> {U32(k) : k \in 1..MaxQueryKey}, yields |-> {U32(1)}],
      [key |-> "CONNECTION", little_endian |-> TRUE, char_signed |-> TRUE,
       copy_keys |-> 1, copy_yields |-> 1, history |-> TRUE, yield |-> "UINT32",
       nbuckets |-> U32(16), ratio |-> <<1, 8>>,
       keys |-> {Conn1, Conn4, Conn4R}, yields |-> {U32(1), U32(11)}] }

\* the tables on which malloc is made to fail: one that copies keys and yields and
\* one that stores the caller's objects
AllocConfigs ==
    { [key |-> "UINT32", little_endian |-> TRUE, char_signed |-> TRUE,
       copy_keys |-> copy, copy_yields |-> copy, history |-> FALSE, yield |-> "UINT32",
       nbuckets |-> U32(16), ratio |-> <<3, 16>>,
       keys |-> {U32(1), U32(2)}, yields |-> {U32(1), U32(2)}] : copy \in {0, 1} }

\* a conninfo_t
Conninfo(pkts, bytes) ==
    [pkts |-> pkts, pkts_fwd |-> pkts, pkts_bwd |-> 0,
     bytes |-> bytes, bytes_fwd |-> bytes, bytes_bwd |-> 0]

\* connection tables with conninfo yields, the second insert finding the table full
ConninfoConfigs ==
    { [key |-> "CONNECTION", little_endian |-> TRUE, char_signed |-> TRUE,
       copy_keys |-> 1, copy_yields |-> 1, history |-> FALSE, yield |-> "CONNINFO",
       nbuckets |-> U32(16), ratio |-> ratio,
       keys |-> {Conn1, Conn1R, Conn2, Conn3},
       yields |-> {Conninfo(1, 40), Conninfo(2, 80)}] : ratio \in {<<1, 8>>, <<1, 2>>} }

AllConfigs ==
    Configs \cup BorrowConfigs \cup QueryConfigs \cup AllocConfigs \cup ConninfoConfigs

\* the bucket counts ht_raw_rebuild is called with
RebuildCounts == {16, 64}

NoCall == [key |-> NoObj, yield |-> NoObj]

\* an operation completed: its arguments key and yield, its other argument (or what
\* is recorded of its run) n, and what it returned
Done(op, key, yield, n, r) == [op |-> op, key |-> key, yield |-> yield, n |-> n, ret |-> r]

\* hf->hash(ht, key) for every build, key type and key of Configs, computed once
HashOf ==
    [c \in AllConfigs |->
        [key \in c.keys |->
            hf_lcg([little_endian |-> c.little_endian, char_signed |-> c.char_signed],
                   c.key, key)]]

(***************************************************************************)
(* The table engine.  A table value t is [ht, bucket, items]: the frame,   *)
(* the bucket array and the heap of items.                                 *)
(***************************************************************************)
\* malloc of a new item: an address no live item has.  The model names the item by
\* the pair it is allocated for; ht_raw_insert allocates only when no item holds an
\* equal pair.
NewItem(heap, key, yield) == <<key, yield>>

RECURSIVE InitLoop(_, _)
\* while ( ht->nbuckets > nbuckets ) ht->nbuckets >>= 1;
InitLoop(n, nbuckets) ==
    IF Gt32(U32(n), nbuckets) THEN InitLoop(n \div 2, nbuckets) ELSE n

FlooredAt16(n) == IF n < 16 THEN 16 ELSE n

\* ht_raw_init without "if ( ht->nbuckets < 16 ) ht->nbuckets = 16"
InitNbuckets_NoFloor(nbuckets) == InitLoop(2^30, nbuckets)

\* the bucket count ht_raw_init chooses for a requested count (a uint32_t)
InitNbuckets(nbuckets) == FlooredAt16(InitLoop(2^30, nbuckets))

\* ht_raw_init with "ht->mask = ht->nbuckets"
InitMask_NoDecrement(n) == n

InitMask(n) == n - 1

ht_raw_init(key, yield, copy_keys, copy_yields, hf, nbuckets, ratio) ==
    LET n == InitNbuckets(nbuckets)
    IN  [ht |-> [key |-> key, yield |-> yield,
                 copy_keys |-> copy_keys, copy_yields |-> copy_yields, hf |-> hf,
                 max_bucket_occupancy_ratio |-> ratio,
                 nbuckets |-> n, mask |-> InitMask(n), entries |-> 0],
         bucket |-> [h \in 0..(n - 1) |-> NULL]]

\* (ht->hf->hash(ht, key)) & ht->mask
BucketOf(frame, key) == AndMask(HashOf[config][key], frame.mask)

KeyMatches(t, key, item) ==
    (key = NoObj) \/ (ho_cmp(t.ht.key, key[1], t.items[item].key) = 0)

YieldMatches(t, yield, item) ==
    (yield = NoObj) \/ (ho_cmp(t.ht.yield, yield[1], t.items[item].yield) = 0)

\* the key of the item has matched, the yield is given, and ho[ht->yield].cmp is a
\* function that aborts
YieldCompared(t, yield) == (yield # NoObj) /\ ho_cmp_aborts(t.ht.yield)

RECURSIVE LookupChain_LastMatch(_, _, _, _)
\* a chain scan that keeps the last matching item instead of stopping at the first
LookupChain_LastMatch(t, item, key, yield) ==
    IF item = NULL THEN NULL
    ELSE CHOOSE r \in
             { IF rest # NULL THEN rest
               ELSE IF KeyMatches(t, key, item) /\ YieldMatches(t, yield, item) THEN item
               ELSE NULL :
                 rest \in {LookupChain_LastMatch(t, t.items[item].next, key, yield)} } : TRUE

RECURSIVE LookupChain(_, _, _, _)
LookupChain(t, item, key, yield) ==
    IF item = NULL THEN NULL
    ELSE IF KeyMatches(t, key, item) /\ YieldCompared(t, yield) THEN Abort
    ELSE IF KeyMatches(t, key, item) /\ YieldMatches(t, yield, item) THEN item
    ELSE LookupChain(t, t.items[item].next, key, yield)

RECURSIVE LookupBuckets(_, _, _, _, _)
LookupBuckets(t, h, h2, key, yield) ==
    IF h >= h2 THEN NULL
    ELSE CHOOSE r \in
             { IF item # NULL THEN item ELSE LookupBuckets(t, h + 1, h2, key, yield) :
                 item \in {LookupChain(t, t.bucket[h], key, yield)} } : TRUE

ht_raw_lookup(t, key, yield) ==
    CHOOSE item \in
        { LookupBuckets(t, h1, IF key = NoObj THEN t.ht.nbuckets ELSE h1 + 1, key, yield) :
            h1 \in {IF key = NoObj THEN 0 ELSE BucketOf(t.ht, key[1])} } : TRUE

\* what ht_raw_get_next "returns" when the process is killed by a signal
Segv == <<"SIGSEGV">>

\* a wildcard scan that gives up at the first empty bucket
FirstFrom_StopsAtEmpty(t, h) == IF h >= t.ht.nbuckets THEN NULL ELSE t.bucket[h]

RECURSIVE FirstFrom(_, _)
\* for (; h < ht->nbuckets; ++h) for (next = ht->bucket[h]; next != NULL; ...) return next;
FirstFrom(t, h) ==
    IF h >= t.ht.nbuckets THEN NULL
    ELSE IF t.bucket[h] # NULL THEN t.bucket[h]
    ELSE FirstFrom(t, h + 1)

\* the scan of bucket h for a key: ht->bucket[h] with h = nbuckets is a read past the
\* array, of a word that is NULL, the address of an item, or anything else
KeyScan(t, h, key) ==
    IF h < t.ht.nbuckets THEN {LookupChain(t, t.bucket[h], key, NoObj)}
    ELSE {NULL, Segv} \cup {LookupChain(t, a, key, NoObj) : a \in DOMAIN t.items}

\* the second half of ht_raw_get_next: the scan from bucket h on
ScanFrom(t, h, key) == IF key = NoObj THEN {FirstFrom(t, h)} ELSE KeyScan(t, h, key)

\* ht_raw_get_next passing over the successors that do not match the key
ht_raw_get_next_Skips(t, item, key) ==
    IF item = NULL
    THEN ScanFrom(t, IF key = NoObj THEN 0 ELSE BucketOf(t.ht, key[1]), key)
    ELSE LET next == t.items[item].next
         IN  IF next # NULL
             THEN {LookupChain(t, next, key, NoObj)}
             ELSE IF t.items[item].h + 1 > t.ht.nbuckets THEN {NULL}
             ELSE ScanFrom(t, t.items[item].h + 1, key)

\* the values ht_raw_get_next(ht, item, key) can return
ht_raw_get_next(t, item, key) ==
    IF item = NULL
    THEN ScanFrom(t, IF key = NoObj THEN 0 ELSE BucketOf(t.ht, key[1]), key)
    ELSE LET next == t.items[item].next
         IN  IF next # NULL
             THEN IF KeyMatches(t, key, next) THEN {next} ELSE {NULL}
             ELSE IF t.items[item].h + 1 > t.ht.nbuckets THEN {NULL}
             ELSE ScanFrom(t, t.items[item].h + 1, key)

\* the indices h of the reads of ht->bucket[h] made by the scan from bucket h on
ScanReads(t, h, key) ==
    IF key = NoObj
    THEN { g \in h..(t.ht.nbuckets - 1) : \A f \in h..(g - 1) : t.bucket[f] = NULL }
    ELSE {h}

\* the indices h of the reads of ht->bucket[h] made by ht_raw_get_next(ht, item, key)
BucketReads(t, item, key) ==
    IF item = NULL
    THEN ScanReads(t, IF key = NoObj THEN 0 ELSE BucketOf(t.ht, key[1]), key)
    ELSE IF t.items[item].next # NULL THEN {}
    ELSE IF t.items[item].h + 1 > t.ht.nbuckets THEN {}
    ELSE ScanReads(t, t.items[item].h + 1, key)

RECURSIVE CountFrom(_, _, _, _, _)
\* for (; item != NULL; item = ht_raw_get_next(ht, item, key)) ++entries;
\* a loop that has returned more items than the table holds is in a cycle
\* the outcomes are <<"idle", entries>> for a return of entries, <<"aborted", _>> for
\* a process killed and <<"hung", _>> for a loop that does not end
CountFrom(t, item, key, entries, fuel) ==
    IF item = NULL THEN {<<"idle", entries>>}
    ELSE IF item = Segv THEN {<<"aborted", entries>>}
    ELSE IF fuel = 0 THEN {<<"hung", entries>>}
    ELSE UNION { CountFrom(t, r, key, entries + 1, fuel - 1) :
                   r \in ht_raw_get_next(t, item, key) }

\* the outcomes of ht_raw_get_entries(ht, key)
ht_raw_get_entries(t, key) ==
    UNION { CountFrom(t, r, key, 0, Cardinality(DOMAIN t.items)) :
              r \in ht_raw_get_next(t, NULL, key) }

\* ht_raw_exists looking the key up without the yield
ht_raw_exists_AnyYield(t, key, yield) ==
    IF ht_raw_lookup(t, key, NoObj) = NULL THEN 0 ELSE 1

ht_raw_exists(t, key, yield) ==
    IF ht_raw_lookup(t, key, yield) = NULL THEN 0 ELSE 1

\* queueing without "item->next = ht->bucket[h]": the chain behind the item is lost
PushFront_DropsChain(bkt, heap, item, h) ==
    [bucket |-> [bkt EXCEPT ![h] = item],
     items  |-> [heap EXCEPT ![item].prev = NULL, ![item].h = h, ![item].next = NULL]]

\* queue an item at the front of the chain of bucket h
PushFront(bkt, heap, item, h) ==
    LET next == bkt[h]
        heap1 == [heap EXCEPT ![item].prev = NULL, ![item].h = h, ![item].next = next]
    IN  [bucket |-> [bkt EXCEPT ![h] = item],
         items  |-> IF next # NULL THEN [heap1 EXCEPT ![next].prev = item] ELSE heap1]

RECURSIVE RebuildChain(_, _, _)
\* s is the new table being filled: [ht, bucket, items]
RebuildChain(s, item, frame) ==
    IF item = NULL THEN s
    ELSE CHOOSE r \in
             { RebuildChain([ht |-> [s.ht EXCEPT !.entries = @ + 1],
                             bucket |-> q.bucket, items |-> q.items],
                            s.items[item].next, frame) :
                 q \in { CHOOSE p \in {PushFront(s.bucket, s.items, item, h) :
                                          h \in {BucketOf(frame, s.items[item].key)}}
                             : TRUE } } : TRUE

RECURSIVE RebuildBuckets(_, _, _)
RebuildBuckets(s, t, i) ==
    IF i >= t.ht.nbuckets THEN s
    ELSE CHOOSE r \in
             { RebuildBuckets(s1, t, i + 1) :
                 s1 \in {RebuildChain(s, t.bucket[i], s.ht)} } : TRUE

\* the bucket count ht_raw_rebuild hands to ht_raw_init
RebuildRequest(t, nbuckets) == U32(t.ht.nbuckets)

\* a rebuild that rehashes the items a second time, which puts every chain back into
\* the order it had
ht_raw_rebuild_KeepsOrder(t, nbuckets) ==
    CHOOSE r \in
        { CHOOSE r2 \in
              { RebuildBuckets([ht |-> newht.ht, bucket |-> newht.bucket,
                                items |-> s1.items], s1, 0) :
                  s1 \in { RebuildBuckets([ht |-> newht.ht, bucket |-> newht.bucket,
                                           items |-> t.items], t, 0) } } : TRUE :
            newht \in { ht_raw_init(t.ht.key, t.ht.yield, t.ht.copy_keys, t.ht.copy_yields,
                                    t.ht.hf, RebuildRequest(t, nbuckets),
                                    t.ht.max_bucket_occupancy_ratio) } } : TRUE

ht_raw_rebuild(t, nbuckets) ==
    CHOOSE r \in
        { RebuildBuckets([ht |-> newht.ht, bucket |-> newht.bucket, items |-> t.items],
                         t, 0) :
            newht \in { ht_raw_init(t.ht.key, t.ht.yield, t.ht.copy_keys, t.ht.copy_yields,
                                    t.ht.hf, RebuildRequest(t, nbuckets),
                                    t.ht.max_bucket_occupancy_ratio) } } : TRUE

\* extracting an item without "--ht->entries"
Unlink_KeepsCount(t, h, item) ==
    LET prev == t.items[item].prev
        next == t.items[item].next
        bkt1 == IF prev # NULL THEN t.bucket
                ELSE [t.bucket EXCEPT ![h] = t.items[t.bucket[h]].next]
        heap1 == IF prev # NULL THEN [t.items EXCEPT ![prev].next = next] ELSE t.items
        heap2 == IF next # NULL THEN [heap1 EXCEPT ![next].prev = prev] ELSE heap1
    IN  [ht |-> t.ht,
         bucket |-> bkt1,
         items |-> [a \in (DOMAIN heap2) \ {item} |-> heap2[a]]]

\* extracting an item without "item->next->prev = item->prev"
Unlink_NoBackLink(t, h, item) ==
    LET prev == t.items[item].prev
        next == t.items[item].next
        bkt1 == IF prev # NULL THEN t.bucket
                ELSE [t.bucket EXCEPT ![h] = t.items[t.bucket[h]].next]
        heap1 == IF prev # NULL THEN [t.items EXCEPT ![prev].next = next] ELSE t.items
    IN  [ht |-> [t.ht EXCEPT !.entries = @ - 1],
         bucket |-> bkt1,
         items |-> [a \in (DOMAIN heap1) \ {item} |-> heap1[a]]]

\* extract an item from the chain of bucket h and free it
Unlink(t, h, item) ==
    LET prev == t.items[item].prev
        next == t.items[item].next
        bkt1 == IF prev # NULL THEN t.bucket
                ELSE [t.bucket EXCEPT ![h] = t.items[t.bucket[h]].next]
        heap1 == IF prev # NULL THEN [t.items EXCEPT ![prev].next = next] ELSE t.items
        heap2 == IF next # NULL THEN [heap1 EXCEPT ![next].prev = prev] ELSE heap1
    IN  [ht |-> [t.ht EXCEPT !.entries = @ - 1],
         bucket |-> bkt1,
         items |-> [a \in (DOMAIN heap2) \ {item} |-> heap2[a]]]

\* a removal that stops at the first matching item of the chain
RemoveChain_FirstOnly(r, h, item, key, yield) ==
    LET first == LookupChain(r.t, item, key, yield)
    IN  IF first = NULL THEN r
        ELSE [t |-> Unlink(r.t, h, first), cnt |-> r.cnt + 1, abort |-> FALSE]

RECURSIVE RemoveChain(_, _, _, _, _)
\* r is [t, cnt, abort]: the table, the entries deleted so far, and whether the
\* comparison of the yields has aborted
RemoveChain(r, h, item, key, yield) ==
    IF item = NULL \/ r.abort THEN r
    ELSE CHOOSE res \in
             { RemoveChain(r1, h, r.t.items[item].next, key, yield) :
                 r1 \in { IF KeyMatches(r.t, key, item) /\ YieldCompared(r.t, yield)
                          THEN [r EXCEPT !.abort = TRUE]
                          ELSE IF KeyMatches(r.t, key, item) /\ YieldMatches(r.t, yield, item)
                          THEN [t |-> Unlink(r.t, h, item), cnt |-> r.cnt + 1,
                                abort |-> FALSE]
                          ELSE r } } : TRUE

RECURSIVE RemoveBuckets(_, _, _, _, _)
RemoveBuckets(r, h, h2, key, yield) ==
    IF h >= h2 \/ r.abort THEN r
    ELSE CHOOSE res \in
             { RemoveBuckets(r1, h + 1, h2, key, yield) :
                 r1 \in {RemoveChain(r, h, r.t.bucket[h], key, yield)} } : TRUE

\* a removal that looks into one bucket only, also for a NULL key
ht_raw_remove_OneBucket(t, key, yield) ==
    CHOOSE r \in
        { RemoveBuckets([t |-> t, cnt |-> 0, abort |-> FALSE], h1, h1 + 1, key, yield) :
            h1 \in {IF key = NoObj THEN 0 ELSE BucketOf(t.ht, key[1])} } : TRUE

\* returns [t, cnt, abort]: the table afterwards and the number of entries deleted,
\* or that the process was aborted
ht_raw_remove(t, key, yield) ==
    CHOOSE r \in
        { RemoveBuckets([t |-> t, cnt |-> 0, abort |-> FALSE], h1,
                        IF key = NoObj THEN t.ht.nbuckets ELSE h1 + 1, key, yield) :
            h1 \in {IF key = NoObj THEN 0 ELSE BucketOf(t.ht, key[1])} } : TRUE

\* ht_raw_insert with "while (ht->entries > ...)"
MustExpand_Strict(frame) ==
    frame.entries * frame.max_bucket_occupancy_ratio[2]
        > frame.max_bucket_occupancy_ratio[1] * frame.nbuckets

\* ht->entries >= (ht->max_bucket_occupancy_ratio * ht->nbuckets), the ratio num/den
MustExpand(frame) ==
    frame.entries * frame.max_bucket_occupancy_ratio[2]
        >= frame.max_bucket_occupancy_ratio[1] * frame.nbuckets

\* ht_raw_insert from "create the new item" on
InsertItem(t, key, yield) ==
    LET item == NewItem(t.items, key, yield)
        heap == [a \in (DOMAIN t.items) \cup {item} |->
                    IF a = item
                    THEN [key |-> key, yield |-> yield, prev |-> NULL, h |-> 0, next |-> NULL]
                    ELSE t.items[a]]
    IN  CHOOSE r \in
            { [ht |-> [t.ht EXCEPT !.entries = @ + 1],
               bucket |-> q.bucket, items |-> q.items] :
                q \in { CHOOSE p \in {PushFront(t.bucket, heap, item, h) :
                                         h \in {BucketOf(t.ht, key)}} : TRUE } } : TRUE

(***************************************************************************)
(* The state machine.                                                      *)
(***************************************************************************)
T == [ht |-> ht, bucket |-> bucket, items |-> items]

SetTable(t) == ht' = t.ht /\ bucket' = t.bucket /\ items' = t.items

\* the pairs of the history that a (key, yield) query matches
Matching(type, key, yield) ==
    {p \in pairs : /\ (key = NoObj \/ ho_cmp(type, key[1], p[1]) = 0)
                   /\ (yield = NoObj \/ ho_cmp(config.yield, yield[1], p[2]) = 0)}

TableInit(c) ==
    LET t == ht_raw_init(c.key, c.yield, c.copy_keys, c.copy_yields, "LCG",
                         c.nbuckets, c.ratio)
    IN  /\ config = c
        /\ ht = t.ht
        /\ bucket = t.bucket
        /\ items = << >>
        /\ pc = "idle"
        /\ call = NoCall
        /\ last = Done("init", NoObj, NoObj, 0, 0)
        /\ net = 0
        /\ pairs = {}
        /\ nb0 = 0
        /\ nrebuilds = 0
        /\ freed = {}
        /\ recent = << >>

Init ==
    /\ \E c \in Configs : TableInit(c)
    /\ arg = <<0, 0>>
    /\ ret = 0

\* the order of the inserts is recorded in the runs that ask for it
Inserted(order, item) == IF config.history THEN Append(order, item) ELSE order

\* the objects of the caller among the pointers ht_raw_remove passes to free():
\* item->key is the caller's object when copy_keys is 0, item->yield when
\* copy_yields is 0
CallerFreed(t, gone) ==
    {<<"key", t.items[a].key>> : a \in {x \in gone : t.ht.copy_keys = 0}}
        \cup {<<"yield", t.items[a].yield>> : a \in {x \in gone : t.ht.copy_yields = 0}}

\* the frees of a removal that leaves table t1.  free() of an object malloc did not
\* return is undefined: the process aborts, or goes on
Released(t1) ==
    \E f \in {CallerFreed(T, (DOMAIN items) \ (DOMAIN t1.items))} :
        /\ freed' = freed \cup f
        /\ pc' \in (IF f = {} THEN {"idle"} ELSE {"idle", "aborted"})
        /\ recent' = SelectSeq(recent, LAMBDA a : a \in DOMAIN t1.items)

\* ht_raw_insert(ht, key, yield), up to its return or to the first turn of its loop
Insert(key, yield) ==
    /\ pc = "idle"
    /\ IF ho_cmp_aborts(ht.yield) /\ ht_raw_lookup(T, Obj(key), Obj(yield)) = Abort
       THEN /\ pc' = "aborted"
            /\ call' = [key |-> Obj(key), yield |-> Obj(yield)]
            /\ UNCHANGED <<ht, bucket, items, last, net, pairs, nb0, nrebuilds, recent>>
       ELSE IF ht_raw_exists(T, Obj(key), Obj(yield)) = 1
       THEN /\ last' = Done("insert", Obj(key), Obj(yield), 0, -1)
            /\ nrebuilds' = 0
            /\ UNCHANGED <<ht, bucket, items, pc, call, net, pairs, nb0, recent>>
       ELSE IF MustExpand(ht)
       THEN /\ pc' = "growing"
            /\ call' = [key |-> Obj(key), yield |-> Obj(yield)]
            /\ nb0' = ht.nbuckets
            /\ nrebuilds' = 0
            /\ UNCHANGED <<ht, bucket, items, last, net, pairs, recent>>
       ELSE /\ \E t1 \in {InsertItem(T, key, yield)} : SetTable(t1)
            /\ recent' = Inserted(recent, NewItem(items, key, yield))
            /\ last' = Done("insert", Obj(key), Obj(yield), 0, 0)
            /\ net' = net + 1
            /\ pairs' = pairs \cup {<<key, yield>>}
            /\ nrebuilds' = 0
            /\ UNCHANGED <<pc, call, nb0>>
    /\ UNCHANGED <<config, arg, ret, freed>>

\* one turn of "while (...) ht_raw_rebuild(ht, ht->nbuckets*2)", and the rest of
\* ht_raw_insert once the loop ends
Grow ==
    /\ pc = "growing"
    /\ \E t1 \in {ht_raw_rebuild(T, ht.nbuckets * 2)} :
           /\ nrebuilds' = IF nrebuilds < MaxRebuilds THEN nrebuilds + 1 ELSE nrebuilds
           /\ IF MustExpand(t1.ht)
              THEN /\ SetTable(t1)
                   /\ recent' = << >>
                   /\ UNCHANGED <<pc, call, last, net, pairs, nb0>>
              ELSE /\ \E t2 \in {InsertItem(t1, call.key[1], call.yield[1])} : SetTable(t2)
                   /\ pc' = "idle"
                   /\ call' = NoCall
                   /\ last' = Done("insert", call.key, call.yield, 0, 0)
                   /\ net' = net + 1
                   /\ pairs' = pairs \cup {<<call.key[1], call.yield[1]>>}
                   /\ recent' = Inserted(<< >>, NewItem(t1.items, call.key[1], call.yield[1]))
                   /\ UNCHANGED nb0
    /\ UNCHANGED <<config, arg, ret, freed>>

\* ht_raw_remove(ht, key, yield); key and yield may be NULL
Remove(key, yield) ==
    /\ pc = "idle"
    /\ \E r \in {ht_raw_remove(T, key, yield)} :
           IF r.abort
           THEN /\ pc' = "aborted"
                /\ UNCHANGED <<ht, bucket, items, last, net, pairs, freed, recent>>
           ELSE /\ SetTable(r.t)
                /\ last' = Done("remove", key, yield, 0, r.cnt)
                /\ net' = net - r.cnt
                /\ Released(r.t)
                /\ pairs' = pairs \ Matching(ht.key, key, yield)
    /\ UNCHANGED <<config, call, nb0, nrebuilds, arg, ret>>

\* ht_raw_reset(ht); last.n records what its ht_raw_remove returned
Reset ==
    /\ pc = "idle"
    /\ \E r \in {ht_raw_remove(T, NoObj, NoObj)} :
           /\ SetTable(r.t)
           /\ last' = Done("reset", NoObj, NoObj, r.cnt, 0)
           /\ net' = net - r.cnt
           /\ Released(r.t)
    /\ pairs' = {}
    /\ UNCHANGED <<config, call, nb0, nrebuilds, arg, ret>>

\* ht_raw_rebuild(ht, n) called by the user
Rebuild(n) ==
    /\ pc = "idle"
    /\ \E t1 \in {ht_raw_rebuild(T, n)} : SetTable(t1)
    /\ last' = Done("rebuild", NoObj, NoObj, n, 0)
    /\ recent' = << >>
    /\ UNCHANGED <<config, pc, call, net, pairs, nb0, nrebuilds, arg, ret, freed>>

Next ==
    \/ \E key \in config.keys, yield \in config.yields : Insert(key, yield)
    \/ Grow
    \/ \E key \in {NoObj} \cup {Obj(k) : k \in config.keys},
          yield \in {NoObj} \cup {Obj(y) : y \in config.yields} : Remove(key, yield)
    \/ Reset
    \/ \E n \in RebuildCounts : Rebuild(n)

Spec == Init /\ [][Next]_vars

\* ht_raw_insert runs on once called: its loop takes its next turn
FairSpec == Spec /\ WF_vars(Grow)

\* where the process is after ht_raw_get_next has returned r
After(r) == IF r \in {Segv, Abort} THEN "aborted" ELSE "idle"

\* ht_raw_get_next(ht, item, key): item is NULL or an item of the table
GetNext(item, key) ==
    /\ pc = "idle"
    /\ \E r \in ht_raw_get_next(T, item, key) :
           /\ last' = [op |-> "get_next", key |-> key, yield |-> NoObj, n |-> item,
                       ret |-> r, reads |-> BucketReads(T, item, key)]
           /\ pc' = After(r)
    /\ UNCHANGED <<config, ht, bucket, items, call, net, pairs, nb0, nrebuilds, arg, ret,
                   freed, recent>>

\* ht_raw_get_entries(ht, key)
GetEntries(key) ==
    /\ pc = "idle"
    /\ \E r \in ht_raw_get_entries(T, key) :
           /\ last' = Done("get_entries", key, NoObj, 0, r[2])
           /\ pc' = r[1]
    /\ UNCHANGED <<config, ht, bucket, items, call, net, pairs, nb0, nrebuilds, arg, ret,
                   freed, recent>>

\* ht_raw_lookup(ht, key, yield)
Lookup(key, yield) ==
    /\ pc = "idle"
    /\ \E r \in {ht_raw_lookup(T, key, yield)} :
           /\ last' = Done("lookup", key, yield, 0, r)
           /\ pc' = After(r)
    /\ UNCHANGED <<config, ht, bucket, items, call, net, pairs, nb0, nrebuilds, arg, ret,
                   freed, recent>>

\* ht_raw_exists(ht, key, yield)
Exists(key, yield) ==
    /\ pc = "idle"
    /\ \E r \in {ht_raw_lookup(T, key, yield)} :
           /\ last' = Done("exists", key, yield, 0, IF r = NULL THEN 0 ELSE 1)
           /\ pc' = After(r)
    /\ UNCHANGED <<config, ht, bucket, items, call, net, pairs, nb0, nrebuilds, arg, ret,
                   freed, recent>>

QueryInit ==
    /\ \E c \in QueryConfigs : TableInit(c)
    /\ arg = <<0, 0>>
    /\ ret = 0

Query ==
    \/ \E item \in {NULL} \cup DOMAIN items,
          key \in {NoObj} \cup {Obj(k) : k \in config.keys} : GetNext(item, key)
    \/ \E key \in {NoObj} \cup {Obj(k) : k \in config.keys} : GetEntries(key)
    \/ \E key \in {NoObj} \cup {Obj(k) : k \in config.keys},
          yield \in {NoObj} \cup {Obj(y) : y \in config.yields} : Lookup(key, yield)
    \/ \E key \in {NoObj} \cup {Obj(k) : k \in config.keys},
          yield \in {NoObj} \cup {Obj(y) : y \in config.yields} : Exists(key, yield)

\* the tables with the queries run on them
QuerySpec == QueryInit /\ [][Next \/ Query]_vars

\* tables that hold the caller's objects
BorrowInit ==
    /\ \E c \in BorrowConfigs : TableInit(c)
    /\ arg = <<0, 0>>
    /\ ret = 0

BorrowSpec == BorrowInit /\ [][Next]_vars

\* tables whose yields are conninfo_t
ConninfoInit ==
    /\ \E c \in ConninfoConfigs : TableInit(c)
    /\ arg = <<0, 0>>
    /\ ret = 0

ConninfoSpec == ConninfoInit /\ [][Next]_vars

(***************************************************************************)
(* malloc returning NULL.  arg names the allocation that failed, ret what  *)
(* the operation did about it.                                             *)
(***************************************************************************)
\* a store through a null pointer is undefined: the process is killed by a signal,
\* or runs on in a state nothing is known about
NullWrite == {"aborted", "undefined"}

\* ht_raw_init with a malloc that fails: the frame is tested and the process exits
\* after a message; the bucket array is not, and the loop that clears it stores
\* through it
InitNoMemory(failed) ==
    /\ arg' = failed
    /\ IF failed = "frame"
       THEN ret' = <<"diagnostic", "exit">> /\ pc' = "exited"
       ELSE ret' = <<"write through NULL">> /\ pc' \in NullWrite

\* ht_raw_insert of a new pair with a malloc that fails: of the item, of the copy of
\* the key or of the copy of the yield.  None is tested: item->key is stored through
\* a null item, the cpy function copies to a null key or yield
InsertNoMemory(key, yield, failed) ==
    /\ pc = "idle"
    /\ ht_raw_exists(T, Obj(key), Obj(yield)) = 0
    /\ ~MustExpand(ht)
    /\ failed \in {"item"} \cup {f \in {"key"} : ht.copy_keys # 0}
                          \cup {f \in {"yield"} : ht.copy_yields # 0}
    /\ arg' = failed
    /\ ret' = <<"write through NULL">>
    /\ pc' \in NullWrite
    /\ call' = [key |-> Obj(key), yield |-> Obj(yield)]
    /\ UNCHANGED <<config, ht, bucket, items, last, net, pairs, nb0, nrebuilds, freed,
                   recent>>

\* ht_raw_rebuild(ht, n) called by the user, the malloc of its ht_raw_init failing
RebuildNoMemory(n, failed) ==
    /\ pc = "idle"
    /\ InitNoMemory(failed)
    /\ UNCHANGED <<config, ht, bucket, items, call, last, net, pairs, nb0, nrebuilds,
                   freed, recent>>

\* a turn of the loop of ht_raw_insert, the malloc of its ht_raw_init failing
GrowNoMemory(failed) ==
    /\ pc = "growing"
    /\ InitNoMemory(failed)
    /\ UNCHANGED <<config, ht, bucket, items, call, last, net, pairs, nb0, nrebuilds,
                   freed, recent>>

AllocInit ==
    /\ \E c \in AllocConfigs : TableInit(c)
    /\ arg = "none"
    /\ ret = << >>

NoMemory ==
    \/ \E key \in config.keys, yield \in config.yields, failed \in {"item", "key", "yield"} :
           InsertNoMemory(key, yield, failed)
    \/ \E n \in RebuildCounts, failed \in {"frame", "bucket"} : RebuildNoMemory(n, failed)
    \/ \E failed \in {"frame", "bucket"} : GrowNoMemory(failed)

AllocSpec == AllocInit /\ [][Next \/ NoMemory]_vars

(***************************************************************************)
(* ht_raw_init's rounding of the requested bucket count, applied to        *)
(* requests from the whole uint32_t range.                                 *)
(***************************************************************************)
RoundingRequests ==
    { <<hi, lo>> : hi \in {0, 1, 2, 3, 2^14 - 1, 2^14, 2^14 + 1, 2^15 - 1, 2^15,
                           2^15 + 1, 2^16 - 1},
                   lo \in {0, 1, 15, 16, 17, 31, 32, 33, 1000, 2^16 - 1} }

RoundingInit ==
    /\ TableInit(CHOOSE c \in Configs : c.key = "CONNECTION")
    /\ arg \in RoundingRequests
    /\ ret = 0

RoundingCall ==
    /\ ret = 0
    /\ ret' = InitNbuckets(arg)
    /\ UNCHANGED <<config, ht, bucket, items, pc, call, last, net, pairs, nb0, nrebuilds, arg,
                   freed, recent>>

RoundingSpec == RoundingInit /\ [][RoundingCall]_vars

(***************************************************************************)
(* conn_marshall applied to a connection and to the same connection seen   *)
(* from the other side.                                                    *)
(***************************************************************************)
MarshallAddrs == {U32(0), <<258, 772>>, <<1286, 1800>>, <<2^15, 0>>, <<2^16 - 1, 2^16 - 1>>}
MarshallPorts == {0, 101, 102, 2^16 - 1}
MarshallProtos == {0, 11, 2^8 - 1}

\* the connection as its other endpoint names it
Reversed(conn) == Conn(conn.daddr, conn.saddr, conn.dport, conn.sport, conn.proto)

MarshallInit ==
    /\ TableInit(CHOOSE c \in Configs : c.key = "CONNECTION")
    /\ arg \in {Conn(sa, da, sp, dp, pr) : sa \in MarshallAddrs, da \in MarshallAddrs,
                   sp \in MarshallPorts, dp \in MarshallPorts, pr \in MarshallProtos}
    /\ ret = << >>

\* ret becomes <<the bytes of the connection, the bytes of the reversed connection>>
MarshallCall ==
    /\ ret = << >>
    /\ ret' = <<conn_marshall(arg), conn_marshall(Reversed(arg))>>
    /\ UNCHANGED <<config, ht, bucket, items, pc, call, last, net, pairs, nb0, nrebuilds, arg,
                   freed, recent>>

MarshallSpec == MarshallInit /\ [][MarshallCall]_vars

(***************************************************************************)
(* The hash function objects (hash_function_t) and the process-wide        *)
(* HMAC-MD5 key of util.c.  In this part arg is the process,               *)
(* [hf, hmac_key_set, shared_hmac_md5_key], where hf lists the hash        *)
(* functions created so far, and ret is the record of the last call.       *)
(***************************************************************************)
MaxHf == 2

\* the table lengths asked of hf_zobrist_init
ZobristLens == {0, 5, 8}

\* the values of tv_usec that seed the Zobrist tables
ZobristSeeds == {0, 1}

\* the keys handed to the hash functions: byte strings (bytes 0..255)
HashKeys == {<<1, 2, 3, 4, 5>>, <<1, 2, 3, 4, 1>>, <<200, 7>>}

\* the contents of the entropy buffer of md5_init_random_seed
Entropy == {<<1, 2, 3>>, <<9, 9>>}

hf_lcg_init == [type |-> "LCG", state |-> NULL]

RECURSIVE ZobristHalve(_, _)
\* while ( state->tablelen > tablelen ) state->tablelen >>= 1;
ZobristHalve(len, tablelen) ==
    IF len > tablelen THEN ZobristHalve(len \div 2, tablelen) ELSE len

\* state->tablelen - 1, as a uint32_t
ZobristMask(len) == IF len = 0 THEN <<W16 - 1, W16 - 1>> ELSE U32(len - 1)

\* hf_zobrist_init(tablelen) at the time of day seed: zobrist lists the rows that are
\* allocated, each of state->tablelen words
hf_zobrist_init(tablelen, seed) ==
    LET len == ZobristHalve(2^30, tablelen)
    IN  [type |-> "ZOBRIST",
         state |-> [tablelen |-> len, tablemask |-> ZobristMask(len),
                    zobrist |-> 0..255, seed |-> seed]]

\* state->zobrist[i][j] as hf_zobrist_init_values has filled it: the values that
\* random() gives after srandom(seed), each below 2^31
ZobristValue(state, i, j) ==
    LET v == Add32(Mul32(U32((state.seed * W16) + (j * W8) + i + 1), U32(LCG_A)),
                   U32(LCG_B))
    IN  <<v[1] % (W16 \div 2), v[2]>>

\* hf_zobrist_remove freeing nothing
hf_zobrist_remove_KeepsRows(hf) ==
    IF hf.type # "ZOBRIST" THEN [hf |-> hf, r |-> -1] ELSE [hf |-> hf, r |-> 0]

\* for (i=0;i<256;++i) free(state->zobrist[i]);
hf_zobrist_remove(hf) ==
    IF hf.type # "ZOBRIST" THEN [hf |-> hf, r |-> -1]
    ELSE [hf |-> [hf EXCEPT !.state.zobrist = @ \ (0..255)], r |-> 0]

\* (int)(*key++) for the byte c of a char array, on build b
CharToInt(b, c) == IF b.char_signed /\ c >= 128 THEN c - W8 ELSE c

\* i & state->tablemask for a position i < 2^16
ZobristColumn(state, i) == And16(i, state.tablemask[2])

\* the words of the table that hf_zobrist_generic reads: <<row, column>> for each byte
ZobristReads(b, state, key, len) ==
    { <<CharToInt(b, key[i + 1]), ZobristColumn(state, i)>> : i \in 0..(len - 1) }

\* a word of the table that exists: a row that is allocated, a column within it
ZobristInTable(state, rc) == rc[1] \in state.zobrist /\ rc[2] < state.tablelen

RECURSIVE ZobristLoop(_, _, _, _, _, _)
\* while ( i < len ) hashvalue ^= state->zobrist[(int)(*key++)][i++&state->tablemask];
ZobristLoop(b, state, key, len, i, hashvalue) ==
    IF i >= len THEN hashvalue
    ELSE ZobristLoop(b, state, key, len, i + 1,
             Xor32(hashvalue, ZobristValue(state, CharToInt(b, key[i + 1]),
                                           ZobristColumn(state, i))))

\* the values hf_zobrist_generic can return: a read outside the table is a read of any
\* word, or of no mapped memory at all
hf_zobrist_generic(b, state, key, len) ==
    IF \A rc \in ZobristReads(b, state, key, len) : ZobristInTable(state, rc)
    THEN {ZobristLoop(b, state, key, len, 0, <<0, 0>>)}
    ELSE {Segv, <<0, 0>>, <<W16 - 1, W16 - 1>>}

\* byte k of the digest whose mixing of the input is the 32-bit value h
Md5Byte(h, k) == (h[1] + (k * h[2]) + k) % W8

\* hash_md5(size, bytes, digest): the 16 bytes of the digest
hash_md5(bytes) ==
    CHOOSE d \in
        { <<Md5Byte(h, 1), Md5Byte(h, 2), Md5Byte(h, 3), Md5Byte(h, 4),
            Md5Byte(h, 5), Md5Byte(h, 6), Md5Byte(h, 7), Md5Byte(h, 8),
            Md5Byte(h, 9), Md5Byte(h, 10), Md5Byte(h, 11), Md5Byte(h, 12),
            Md5Byte(h, 13), Md5Byte(h, 14), Md5Byte(h, 15), Md5Byte(h, 16)>> :
              h \in {hf_lcg_generic([char_signed |-> FALSE], bytes, Len(bytes))} } : TRUE

\* digest[i] ^= shared_hmac_md5_key[i] for the 16 bytes
XorKey(d, k) ==
    <<Xor16(d[1], k[1]), Xor16(d[2], k[2]), Xor16(d[3], k[3]), Xor16(d[4], k[4]),
      Xor16(d[5], k[5]), Xor16(d[6], k[6]), Xor16(d[7], k[7]), Xor16(d[8], k[8]),
      Xor16(d[9], k[9]), Xor16(d[10], k[10]), Xor16(d[11], k[11]), Xor16(d[12], k[12]),
      Xor16(d[13], k[13]), Xor16(d[14], k[14]), Xor16(d[15], k[15]), Xor16(d[16], k[16])>>

\* hmac_md5(size, bytes, digest) under the key in shared_hmac_md5_key
hmac_md5(p, bytes) ==
    CHOOSE d \in { hash_md5(x) :
                      x \in { XorKey(digest, p.shared_hmac_md5_key) :
                                 digest \in {hash_md5(bytes)} } } : TRUE

\* hashvalue = digest[0] for a uint32_t digest[16] filled by hmac_md5
hf_md5_generic(b, p, key) ==
    CHOOSE hashvalue \in
        { IF b.little_endian
          THEN <<(d[4] * W8) + d[3], (d[2] * W8) + d[1]>>
          ELSE <<(d[1] * W8) + d[2], (d[3] * W8) + d[4]>> : d \in {hmac_md5(p, key)} } : TRUE

\* md5_init_random_seed drawing a new key at every call
md5_init_random_seed_Always(p, e) ==
    [p EXCEPT !.shared_hmac_md5_key = hash_md5(e), !.hmac_key_set = 1]

\* md5_init_random_seed() finding the entropy e in its buffer
md5_init_random_seed(p, e) ==
    IF p.hmac_key_set = 0
    THEN [p EXCEPT !.shared_hmac_md5_key = hash_md5(e), !.hmac_key_set = 1]
    ELSE p

\* hf_md5_init(): the function, and the process after md5_init_random_seed()
hf_md5_init(p, e) ==
    LET q == md5_init_random_seed(p, e)
    IN  [q EXCEPT !.hf = Append(@, [type |-> "MD5", state |-> NULL])]

HfCall(op, i, key, r) == [op |-> op, hf |-> i, key |-> key, r |-> r]

HfInit ==
    /\ \E c \in Configs : c.key = "UINT32" /\ TableInit(c)
    /\ arg = [hf |-> << >>, hmac_key_set |-> 0, shared_hmac_md5_key |-> [i \in 1..16 |-> 0]]
    /\ ret = HfCall("none", 0, << >>, 0)

HfUnchanged ==
    UNCHANGED <<config, ht, bucket, items, pc, call, last, net, pairs, nb0, nrebuilds,
                freed, recent>>

HfLcgInit ==
    /\ Len(arg.hf) < MaxHf
    /\ arg' = [arg EXCEPT !.hf = Append(@, hf_lcg_init)]
    /\ ret' = HfCall("hf_lcg_init", Len(arg.hf) + 1, << >>, 0)
    /\ HfUnchanged

HfZobristInit ==
    /\ Len(arg.hf) < MaxHf
    /\ \E tablelen \in ZobristLens, seed \in ZobristSeeds :
           /\ arg' = [arg EXCEPT !.hf = Append(@, hf_zobrist_init(tablelen, seed))]
           /\ ret' = HfCall("hf_zobrist_init", Len(arg.hf) + 1, << >>, tablelen)
    /\ HfUnchanged

HfMd5Init ==
    /\ Len(arg.hf) < MaxHf
    /\ \E e \in Entropy : arg' = hf_md5_init(arg, e)
    /\ ret' = HfCall("hf_md5_init", Len(arg.hf) + 1, << >>, 0)
    /\ HfUnchanged

\* hf_zobrist_remove(hf) for a function that has not been removed before
HfZobristRemove ==
    /\ \E i \in 1..Len(arg.hf) :
           /\ arg.hf[i].type = "ZOBRIST" => arg.hf[i].state.zobrist # {}
           /\ \E o \in {hf_zobrist_remove(arg.hf[i])} :
                  /\ arg' = [arg EXCEPT !.hf[i] = o.hf]
                  /\ ret' = HfCall("hf_zobrist_remove", i, << >>, o.r)
    /\ HfUnchanged

\* hf_lcg_generic, hf_zobrist_generic or hf_md5_generic, by the type of the function,
\* for a function that has not been removed
HfHash ==
    /\ \E i \in 1..Len(arg.hf), key \in HashKeys :
           LET hf == arg.hf[i]
               b == [little_endian |-> config.little_endian,
                     char_signed |-> config.char_signed]
           IN  /\ hf.type = "ZOBRIST" => hf.state.zobrist # {}
               /\ \E r \in IF hf.type = "LCG" THEN {hf_lcg_generic(b, key, Len(key))}
                           ELSE IF hf.type = "ZOBRIST"
                           THEN hf_zobrist_generic(b, hf.state, key, Len(key))
                           ELSE {hf_md5_generic(b, arg, key)} :
                      ret' = HfCall("hash", i, key, r)
    /\ arg' = arg
    /\ HfUnchanged

HfNext == HfLcgInit \/ HfZobristInit \/ HfMd5Init \/ HfZobristRemove \/ HfHash

HfSpec == HfInit /\ [][HfNext]_vars

(***************************************************************************)
(* hf_lcg_generic applied to byte strings.                                 *)
(***************************************************************************)
MaxLcgLen == 5

LcgBytes == {0, 1, 128, 2^8 - 1}

LcgInit ==
    /\ \E c \in Configs : c.key = "UINT32" /\ TableInit(c)
    /\ arg \in UNION { [1..n -> LcgBytes] : n \in 0..MaxLcgLen }
    /\ ret = << >>

\* ret becomes hf_lcg_generic(NULL, arg, len) on the build of config
LcgCall ==
    /\ ret = << >>
    /\ ret' = hf_lcg_generic(config, arg, Len(arg))
    /\ UNCHANGED <<config, ht, bucket, items, pc, call, last, net, pairs, nb0, nrebuilds, arg,
                   freed, recent>>

LcgSpec == LcgInit /\ [][LcgCall]_vars

(***************************************************************************)
(* conncmp, conn_marshall and the hash of the marshalled bytes applied to  *)
(* pairs of connections, and uint32cmp applied to pairs of uint32_t.       *)
(***************************************************************************)
CmpAddrs == {<<0, 1>>, <<2^15, 0>>, <<2^16 - 1, 2^16 - 1>>}
CmpPorts == {1, 2^16 - 1}
CmpProtos == {6, 17}

CmpConns ==
    {Conn(sa, da, sp, dp, pr) : sa \in CmpAddrs, da \in CmpAddrs,
                                sp \in CmpPorts, dp \in CmpPorts, pr \in CmpProtos}

CmpWords == {<<hi, lo>> : hi \in {0, 1, 2^15, 2^16 - 1}, lo \in {0, 1, 2^15, 2^16 - 1}}

ConnCmpInit ==
    /\ TableInit(CHOOSE c \in Configs : c.key = "CONNECTION")
    /\ arg \in CmpConns \X CmpConns
    /\ ret = << >>

\* ret becomes the comparisons of the two connections in both orders, the bytes
\* conn_marshall gives for each, and hf_lcg_generic of these bytes
ConnCmpCall ==
    /\ ret = << >>
    /\ ret' = [cmp |-> conncmp(arg[1], arg[2]), rcmp |-> conncmp(arg[2], arg[1]),
               bytes |-> <<conn_marshall(arg[1]), conn_marshall(arg[2])>>,
               hash |-> <<hf_lcg(config, "CONNECTION", arg[1]),
                          hf_lcg(config, "CONNECTION", arg[2])>>]
    /\ UNCHANGED <<config, ht, bucket, items, pc, call, last, net, pairs, nb0, nrebuilds, arg,
                   freed, recent>>

ConnCmpSpec == ConnCmpInit /\ [][ConnCmpCall]_vars

Uint32CmpInit ==
    /\ TableInit(CHOOSE c \in Configs : c.key = "CONNECTION")
    /\ arg \in CmpWords \X CmpWords
    /\ ret = << >>

\* ret becomes <<uint32cmp(o1, o2)>>
Uint32CmpCall ==
    /\ ret = << >>
    /\ ret' = <<uint32cmp(arg[1], arg[2])>>
    /\ UNCHANGED <<config, ht, bucket, items, pc, call, last, net, pairs, nb0, nrebuilds, arg,
                   freed, recent>>

Uint32CmpSpec == Uint32CmpInit /\ [][Uint32CmpCall]_vars

(***************************************************************************)
(* Properties.                                                             *)
(***************************************************************************)
Pow2U32(e) == IF e >= 16 THEN <<2^(e - 16), 0>> ELSE <<0, 2^e>>

\* the largest power of two <= r, for r >= 1
LargestPow2Le(r) ==
    Pow2U32(CHOOSE e \in 0..31 :
                /\ ~Gt32(Pow2U32(e), r)
                /\ \A f \in (e + 1)..31 : Gt32(Pow2U32(f), r))

Floor16(p) == IF Lt32(p, U32(16)) THEN U32(16) ELSE p

Min32(a, b) == IF Gt32(a, b) THEN b ELSE a

\* C8: in every reachable state of a table nbuckets is a power of two >= 16 and
\* mask = nbuckets - 1 (and the bucket array has nbuckets heads).
C8_PowerOfTwoBuckets ==
    /\ \E e \in 4..30 : ht.nbuckets = 2^e
    /\ ht.mask = ht.nbuckets - 1
    /\ DOMAIN bucket = 0..(ht.nbuckets - 1)

\* a table of 32 buckets that has been rebuilt while holding items
C8_Witness == last.op = "rebuild" /\ ht.nbuckets = 32 /\ ht.entries >= 2

\* C9 as claimed: for every 32-bit request r, ht_raw_init sets nbuckets to the largest
\* power of two <= r, or to 16 when that is below 16 (r = 0 included).
C9_RoundsDown ==
    (ret # 0) =>
        U32(ret) = (IF arg = <<0, 0>> THEN U32(16) ELSE Floor16(LargestPow2Le(arg)))

\* C9 amended: nbuckets is the largest power of two <= r that does not exceed 2^30,
\* or 16 when that is below 16.
C9_RoundsDownCapped ==
    (ret # 0) =>
        U32(ret) = (IF arg = <<0, 0>> THEN U32(16)
                    ELSE Floor16(Min32(LargestPow2Le(arg), Pow2U32(30))))

\* a request of 2^31 or more has been rounded
C9_Witness == ret # 0 /\ ~Lt32(arg, Pow2U32(31))

\* ht_raw_insert has just returned 0
InsertReturned0 == pc = "idle" /\ last.op = "insert" /\ last.ret = 0

\* C1: when ht_raw_insert of a new pair finds entries >= ratio * nbuckets, exactly
\* one rebuild runs, the insert goes on, and nbuckets is twice its previous value.
C1_OneRebuildDoubles ==
    (nrebuilds >= 1) => (nrebuilds = 1 /\ pc = "idle" /\ ht.nbuckets = 2 * nb0)

\* C2: every call of ht_raw_insert terminates, also when it enters the growth loop.
C2_InsertTerminates == (pc = "growing") ~> (pc = "idle")

\* C6: after ht_raw_rebuild(ht, n), nbuckets is the largest power of two <= n,
\* floored at 16.
C6_RebuildRounds ==
    (pc = "idle" /\ last.op = "rebuild") => (ht.nbuckets = InitNbuckets(U32(last.n)))

\* C7 as claimed: after every ht_raw_insert that returns 0,
\* entries < max_bucket_occupancy_ratio * nbuckets.
C7_StrictlyBelowRatio ==
    InsertReturned0 =>
        (ht.entries * ht.max_bucket_occupancy_ratio[2]
            < ht.max_bucket_occupancy_ratio[1] * ht.nbuckets)

\* C7 amended: after every ht_raw_insert that returns 0,
\* entries - 1 < max_bucket_occupancy_ratio * nbuckets.
C7_BelowRatioBeforeInsert ==
    InsertReturned0 =>
        ((ht.entries - 1) * ht.max_bucket_occupancy_ratio[2]
            < ht.max_bucket_occupancy_ratio[1] * ht.nbuckets)

\* an insert returned 0 and left entries above ratio * nbuckets
C7_Witness ==
    /\ InsertReturned0
    /\ ht.entries * ht.max_bucket_occupancy_ratio[2]
           > ht.max_bucket_occupancy_ratio[1] * ht.nbuckets

\* the table after the step
Tnext == [ht |-> ht', bucket |-> bucket', items |-> items']

KeyArgs == {NoObj} \cup {Obj(k) : k \in config.keys}
YieldArgs == {NoObj} \cup {Obj(y) : y \in config.yields}

\* the stored items a (key, yield) query matches, found without hashing
Stored(t, key, yield) ==
    {a \in DOMAIN t.items : KeyMatches(t, key, a) /\ YieldMatches(t, yield, a)}

RECURSIVE Walk(_, _, _)
\* the chain from item on, following next for at most fuel items
Walk(t, item, fuel) ==
    IF item = NULL \/ fuel = 0 THEN << >>
    ELSE <<item>> \o Walk(t, t.items[item].next, fuel - 1)

ChainOf(t, h) == Walk(t, t.bucket[h], Cardinality(DOMAIN t.items) + 1)

\* every item is linked into exactly one chain, exactly once
EachLinkedOnce(t) ==
    \A chains \in {[h \in DOMAIN t.bucket |-> ChainOf(t, h)]} :
        /\ \A a \in DOMAIN t.items :
               Cardinality({h \in DOMAIN chains :
                               \E i \in DOMAIN chains[h] : chains[h][i] = a}) = 1
        /\ \A h \in DOMAIN chains :
               \A i, j \in DOMAIN chains[h] : (chains[h][i] = chains[h][j]) => (i = j)

\* C3: entries equals the inserts that returned 0 minus the sum of the values
\* returned by remove, and ht_raw_lookup(key, yield) returns an item exactly for the
\* pairs inserted successfully and not removed since.
C3_EntriesAndLookup ==
    /\ ht.entries = net
    /\ \A key \in config.keys, yield \in config.yields :
           (ht_raw_lookup(T, Obj(key), Obj(yield)) # NULL)
               <=> (Matching(ht.key, Obj(key), Obj(yield)) # {})

\* a remove has deleted items and left others
C3_Witness == pc = "idle" /\ last.op = "remove" /\ last.ret >= 1 /\ ht.entries >= 1

\* C4: inserting a pair whose key and yield compare equal to those of a stored item
\* returns -1 and changes nothing (no rebuild); inserting a pair not stored returns 0
\* when it returns.
C4_DuplicateInsert ==
    [][/\ (pc = "idle" /\ pc' = "idle" /\ last'.op = "insert"
              /\ Insert(last'.key[1], last'.yield[1]))
           => IF Stored(T, last'.key, last'.yield) # {}
              THEN last'.ret = -1 /\ nrebuilds' = 0 /\ UNCHANGED <<ht, bucket, items>>
              ELSE last'.ret = 0 /\ Stored(Tnext, last'.key, last'.yield) # {}
       /\ (pc = "idle" /\ pc' = "growing") => (Stored(T, call'.key, call'.yield) = {})
      ]_vars

\* an insert has returned -1
C4_Witness == pc = "idle" /\ last.op = "insert" /\ last.ret = -1 /\ ht.entries >= 1

\* a step that is one run of ht_raw_rebuild
RebuildStep ==
    \/ pc = "idle" /\ last'.op = "rebuild" /\ Rebuild(last'.n)
    \/ pc = "growing" /\ pc' = "growing" /\ Grow

\* C5: ht_raw_rebuild keeps the set of items, their keys and yields and entries,
\* links every item into exactly one chain of the new bucket array exactly once,
\* and every pair findable by lookup before is findable after.
C5_RebuildPreservesMembership ==
    [][RebuildStep =>
           /\ DOMAIN items' = DOMAIN items
           /\ \A a \in DOMAIN items :
                  items'[a].key = items[a].key /\ items'[a].yield = items[a].yield
           /\ ht'.entries = ht.entries
           /\ EachLinkedOnce(Tnext)
           /\ \A key \in KeyArgs, yield \in YieldArgs :
                  (ht_raw_lookup(T, key, yield) # NULL)
                      => (ht_raw_lookup(Tnext, key, yield) # NULL)]_vars

\* a rebuild has run on a table with a chain of two items or more
C5_Witness ==
    /\ pc = "idle" /\ last.op = "rebuild"
    /\ \E a \in DOMAIN items : items[a].next # NULL

\* C10: ht_raw_remove(key, yield) removes every matching item, returns their number,
\* decreases entries by it, leaves every other item stored and findable, and
\* afterwards ht_raw_lookup(key, yield) returns NULL.
C10_RemoveAllMatching ==
    [][(last'.op = "remove" /\ Remove(last'.key, last'.yield)) =>
           \A gone \in {Stored(T, last'.key, last'.yield)} :
               /\ last'.ret = Cardinality(gone)
               /\ ht'.entries = ht.entries - Cardinality(gone)
               /\ DOMAIN items' = (DOMAIN items) \ gone
               /\ \A a \in DOMAIN items' :
                      /\ items'[a].key = items[a].key /\ items'[a].yield = items[a].yield
                      /\ ht_raw_lookup(Tnext, Obj(items[a].key), Obj(items[a].yield)) = a
               /\ ht_raw_lookup(Tnext, last'.key, last'.yield) = NULL]_vars

\* remove(key, NULL) has returned 3: three items shared the key
C10_Witness ==
    /\ pc = "idle" /\ last.op = "remove"
    /\ last.key # NoObj /\ last.yield = NoObj /\ last.ret = 3

\* C11: ht_raw_remove (and reset through it) frees only storage the item owns: no key
\* object of the caller when copy_keys is 0, no yield object of the caller when
\* copy_yields is 0.
C11_FreesOnlyOwnedStorage == freed = {}

\* C12: conn_marshall of a tuple and of the reversed tuple give the same 13 bytes,
\* also when the addresses or the ports are equal.
C12_MarshallSymmetric == (ret # << >>) => (ret[1] = ret[2] /\ Len(ret[1]) = 13)

\* both sides of a connection between two ports of one address have been marshalled
C12_Witness == ret # << >> /\ arg.saddr = arg.daddr /\ arg.sport < arg.dport

\* the items stored under connection k are two: k with one yield and k reversed with
\* another
TwoSided(t, k) ==
    \E y1, y2 \in config.yields :
        /\ y1 # y2
        /\ Stored(t, Obj(k), NoObj) = {<<k, y1>>, <<Reversed(k), y2>>}

\* C13: in a connection-keyed table, a tuple and its reverse inserted with different
\* yields are both accepted, ht_raw_get_entries on either orientation returns 2, and
\* ht_raw_remove with a NULL yield on either orientation removes both (returns 2).
C13_BothOrientationsOneKey ==
    [][(ht.key = "CONNECTION" /\ pc = "idle") =>
        /\ (/\ pc' = "idle" /\ last'.op = "insert"
            /\ Insert(last'.key[1], last'.yield[1])
            /\ \E y1 \in config.yields \ {last'.yield[1]} :
                   Stored(T, last'.key, NoObj) = {<<Reversed(last'.key[1]), y1>>})
           => (last'.ret = 0 /\ TwoSided(Tnext, last'.key[1]))
        /\ (/\ last'.op = "get_entries" /\ last'.key # NoObj
            /\ GetEntries(last'.key)
            /\ TwoSided(T, last'.key[1]))
           => (pc' = "idle" /\ last'.ret = 2)
        /\ (/\ last'.op = "remove" /\ last'.key # NoObj /\ last'.yield = NoObj
            /\ Remove(last'.key, last'.yield)
            /\ TwoSided(T, last'.key[1]))
           => (last'.ret = 2 /\ Stored(Tnext, last'.key, NoObj) = {})]_vars

\* C14: ht_raw_get_entries(ht, key) with a non-NULL key returns the number of stored
\* items whose key compares equal to key, also when items with other keys sit
\* between them in the chain.  The keys of the last bucket, where the scan goes on
\* past the bucket array, are left out.
C14_CountsItemsOfKey ==
    (/\ pc = "idle" /\ last.op = "get_entries" /\ last.key # NoObj
     /\ BucketOf(ht, last.key[1]) + 1 < ht.nbuckets)
        => (last.ret = Cardinality(Stored(T, last.key, NoObj)))

\* the first item of a sequence of items whose key matches, NULL when there is none
FirstMatch(t, chain, key) ==
    IF \E i \in DOMAIN chain : KeyMatches(t, key, chain[i])
    THEN chain[CHOOSE i \in DOMAIN chain :
                   /\ KeyMatches(t, key, chain[i])
                   /\ \A j \in 1..(i - 1) : ~KeyMatches(t, key, chain[j])]
    ELSE NULL

RECURSIVE Order(_, _)
\* the items of the buckets h, h + 1, ..., each chain from its head to its tail
Order(t, h) == IF h >= t.ht.nbuckets THEN << >> ELSE ChainOf(t, h) \o Order(t, h + 1)

RECURSIVE Iterate(_, _, _)
\* the items that item = ht_raw_get_next(ht, item, NULL) goes through from item on,
\* until it is NULL or fuel calls have been made
Iterate(t, item, fuel) ==
    IF item = NULL \/ fuel = 0 THEN << >>
    ELSE <<item>> \o Iterate(t, CHOOSE r \in ht_raw_get_next(t, item, NoObj) : TRUE,
                             fuel - 1)

\* C16: on a table that is not being changed, the iteration that starts with
\* ht_raw_get_next(ht, NULL, NULL) and passes each returned item back with a NULL key
\* returns every stored item exactly once, bucket after bucket in ascending order and
\* each chain from head to tail, and then NULL; ht_raw_get_entries(ht, NULL) returns
\* ht->entries.
C16_WildcardIteration ==
    (pc = "idle") =>
        /\ \A item \in {NULL} \cup DOMAIN items :
               Cardinality(ht_raw_get_next(T, item, NoObj)) = 1
        /\ \A seq \in {Iterate(T, CHOOSE r \in ht_raw_get_next(T, NULL, NoObj) : TRUE,
                                Cardinality(DOMAIN items) + 1)} :
               /\ Len(seq) = Cardinality(DOMAIN items)
               /\ {seq[i] : i \in DOMAIN seq} = DOMAIN items
               /\ seq = Order(T, 0)
        /\ ht_raw_get_entries(T, NoObj) = {<<"idle", ht.entries>>}

\* ht_raw_get_entries(ht, NULL) has counted the items of a table that has items in
\* more than one bucket
C16_Witness ==
    /\ pc = "idle" /\ last.op = "get_entries" /\ last.key = NoObj
    /\ last.ret = ht.entries /\ ht.entries >= 2
    /\ Cardinality({items[a].h : a \in DOMAIN items}) >= 2

\* the first item of a sequence of items that a (key, yield) query matches
FirstStored(t, chain, key, yield) ==
    IF \E i \in DOMAIN chain : chain[i] \in Stored(t, key, yield)
    THEN chain[CHOOSE i \in DOMAIN chain :
                   /\ chain[i] \in Stored(t, key, yield)
                   /\ \A j \in 1..(i - 1) : chain[j] \notin Stored(t, key, yield)]
    ELSE NULL

\* of the items inserted since the last rebuild that a (key, yield) query matches,
\* the one inserted last; NULL when there is none
MostRecent(t, key, yield) ==
    IF \E i \in DOMAIN recent : recent[i] \in Stored(t, key, yield)
    THEN recent[CHOOSE i \in DOMAIN recent :
                    /\ recent[i] \in Stored(t, key, yield)
                    /\ \A j \in (i + 1)..Len(recent) : recent[j] \notin Stored(t, key, yield)]
    ELSE NULL

\* C17 as stated: ht_raw_lookup(key, yield) returns the first matching item in
\* ascending bucket order and then from head to tail of the chain (all buckets for a
\* NULL key, the key's bucket otherwise), NULL when nothing matches; if matching items
\* were inserted since the last rebuild it is the one inserted last; ht_raw_exists
\* returns 1 exactly when ht_raw_lookup returns an item.
C17_LookupFirstAndMostRecent ==
    /\ (pc = "idle" /\ last.op = "lookup") =>
           /\ last.ret = FirstStored(T, IF last.key = NoObj THEN Order(T, 0)
                                        ELSE ChainOf(T, BucketOf(ht, last.key[1])),
                                     last.key, last.yield)
           /\ \A m \in {MostRecent(T, last.key, last.yield)} :
                  (m # NULL) => (last.ret = m)
    /\ (pc = "idle" /\ last.op = "exists") =>
           ((last.ret = 1) <=> (ht_raw_lookup(T, last.key, last.yield) # NULL))

\* C17 with the most recent item promised for a non-NULL key only: the items of one
\* key share a chain, those of a NULL key are spread over the buckets.
C17_LookupFirstAndMostRecentOfKey ==
    /\ (pc = "idle" /\ last.op = "lookup") =>
           /\ last.ret = FirstStored(T, IF last.key = NoObj THEN Order(T, 0)
                                        ELSE ChainOf(T, BucketOf(ht, last.key[1])),
                                     last.key, last.yield)
           /\ \A m \in {MostRecent(T, last.key, last.yield)} :
                  (m # NULL /\ last.key # NoObj) => (last.ret = m)
    /\ (pc = "idle" /\ last.op = "exists") =>
           ((last.ret = 1) <=> (ht_raw_lookup(T, last.key, last.yield) # NULL))

\* ht_raw_lookup of a key has returned the newest of two items it matches, which
\* have another item between them in the chain
C17_Witness ==
    /\ pc = "idle" /\ last.op = "lookup" /\ last.key # NoObj /\ last.yield = NoObj
    /\ Len(recent) = 3
    /\ last.ret = recent[3]
    /\ Stored(T, last.key, NoObj) = {recent[1], recent[3]}

\* C18: ht_raw_reset leaves the table as ht_raw_remove(ht, NULL, NULL) does: entries
\* is 0 and every bucket is empty, while nbuckets, mask, the bucket array, the types
\* and the hash function stay; the table equals a newly initialised one of that size,
\* and an insert into it does what it does there.
C18_ResetEmptiesTable ==
    [][(last'.op = "reset" /\ Reset) =>
           /\ \A r \in {ht_raw_remove(T, NoObj, NoObj)} : Tnext = r.t
           /\ ht' = [ht EXCEPT !.entries = 0]
           /\ DOMAIN bucket' = DOMAIN bucket
           /\ \A h \in DOMAIN bucket' : bucket'[h] = NULL
           /\ DOMAIN items' = {}
           /\ \A fresh \in {ht_raw_init(ht.key, ht.yield, ht.copy_keys, ht.copy_yields,
                                        ht.hf, U32(ht.nbuckets),
                                        ht.max_bucket_occupancy_ratio)} :
                  /\ ht' = fresh.ht
                  /\ bucket' = fresh.bucket
                  /\ \A key \in config.keys, yield \in config.yields :
                         InsertItem(Tnext, key, yield)
                             = InsertItem([ht |-> fresh.ht, bucket |-> fresh.bucket,
                                           items |-> << >>], key, yield)]_vars

\* ht_raw_reset has emptied a table of two or more items
C18_Witness ==
    /\ pc = "idle" /\ last.op = "reset" /\ last.n >= 2
    /\ ht.entries = 0 /\ DOMAIN items = {}

\* C19: when insert, remove, reset or rebuild has returned, the head of every bucket
\* has prev = NULL, the successor of every item points back to it, every chain ends
\* without a cycle, every item is in exactly one chain, and an item in the chain of
\* bucket b has h = b = hash(key) & mask.
C19_ChainsConsistent ==
    (pc = "idle") =>
        /\ \A b \in DOMAIN bucket :
               (bucket[b] # NULL) =>
                   (bucket[b] \in DOMAIN items /\ items[bucket[b]].prev = NULL)
        /\ \A x \in DOMAIN items :
               (items[x].next # NULL) =>
                   (items[x].next \in DOMAIN items /\ items[items[x].next].prev = x)
        /\ EachLinkedOnce(T)
        /\ \A b \in DOMAIN bucket :
               \A chain \in {ChainOf(T, b)} :
                   \A i \in DOMAIN chain :
                       /\ items[chain[i]].h = b
                       /\ b = BucketOf(ht, items[chain[i]].key)

\* a removal has taken an item out of the middle of a chain and left its two
\* neighbours linked to each other
C19_Witness ==
    /\ pc = "idle" /\ last.op = "remove" /\ last.ret = 1
    /\ \E x \in DOMAIN items :
           /\ items[x].next # NULL
           /\ items[items[x].next].prev = x
           /\ bucket[items[x].h] = x
           /\ \E k \in config.keys, y1, y2, y3 \in config.yields :
                  /\ x = <<k, y3>> /\ items[x].next = <<k, y1>>
                  /\ last.key = Obj(k) /\ last.yield = Obj(y2)
                  /\ y1 # y2 /\ y2 # y3 /\ y1 # y3

\* C20: when the allocation of the table frame, of the bucket array, of an item or of
\* the copy of its key or yield fails, the operation prints a diagnostic and ends the
\* process; it does not go on to store through the null pointer.
C20_AllocationFailureExits ==
    (arg # "none") => (ret = <<"diagnostic", "exit">> /\ pc = "exited")

\* C21: in a table whose yields are conninfo_t, ht_raw_insert(key, yield) with a
\* yield returns 0 or -1 and never reaches the abort() of conninfocmp, also when an
\* item with a matching key is stored.
C21_InsertNeverAborts ==
    ~(ht.yield = "CONNINFO" /\ pc = "aborted" /\ call # NoCall)

\* C22: hf_zobrist_remove called on a function that is not a Zobrist function returns
\* -1 and changes nothing; called on a Zobrist function it returns 0 and has released
\* the 256 rows of the table (and nothing else of the process has changed).
C22_ZobristRemove ==
    [][(ret'.op = "hf_zobrist_remove") =>
           LET hf == arg.hf[ret'.hf]
           IN  IF hf.type # "ZOBRIST"
               THEN ret'.r = -1 /\ arg' = arg
               ELSE /\ ret'.r = 0
                    /\ arg'.hf[ret'.hf].state.zobrist \cap (0..255) = {}
                    /\ arg'.hf[ret'.hf].type = "ZOBRIST"
                    /\ \A j \in (1..Len(arg.hf)) \ {ret'.hf} : arg'.hf[j] = arg.hf[j]
                    /\ Len(arg'.hf) = Len(arg.hf)
                    /\ arg'.hmac_key_set = arg.hmac_key_set]_vars

\* a Zobrist function has been removed beside a function of another type
C22_Witness ==
    /\ ret.op = "hf_zobrist_remove" /\ ret.r = 0
    /\ arg.hf[ret.hf].state.zobrist = {}
    /\ \E j \in 1..Len(arg.hf) : arg.hf[j].type # "ZOBRIST"

\* C24: hf_zobrist_init(tablelen) makes a table of L columns, L a power of two that is
\* >= the requested tablelen, with tablemask = L - 1, so that two distinct byte
\* positions below the requested length use distinct columns.
C24_TableCoversRequest ==
    (ret.op = "hf_zobrist_init") =>
        LET state == arg.hf[ret.hf].state
        IN  /\ \E e \in 0..30 : state.tablelen = 2^e
            /\ state.tablelen >= ret.r
            /\ state.tablemask = ZobristMask(state.tablelen)
            /\ \A i, j \in 0..(ret.r - 1) :
                   (i # j) => (ZobristColumn(state, i) # ZobristColumn(state, j))

\* C25: hf_zobrist_generic returns the XOR over the positions i of the key of
\* zobrist[byte_i][i mod L], the row index being the byte as a value of 0..255
\* (bytes of 128 and more included).
C25_RowIsTheByte ==
    (ret.op = "hash" /\ arg.hf[ret.hf].type = "ZOBRIST") =>
        LET state == arg.hf[ret.hf].state
            b == [char_signed |-> config.char_signed]
            len == Len(ret.key)
        IN  /\ \A rc \in ZobristReads(b, state, ret.key, len) : rc[1] \in 0..255
            /\ ret.r = ZobristLoop([char_signed |-> FALSE], state, ret.key, len, 0, <<0, 0>>)

\* C26: the first hf_md5_init sets hmac_key_set and the key; once the key is set no
\* call changes hmac_key_set or shared_hmac_md5_key, and hf_md5 maps the same bytes to
\* the same hash value before and after every later hf_md5_init.
C26_KeyGeneratedOnce ==
    [][/\ (ret'.op = "hf_md5_init") => (arg'.hmac_key_set = 1)
       /\ (arg.hmac_key_set = 1) =>
              /\ arg'.hmac_key_set = 1
              /\ arg'.shared_hmac_md5_key = arg.shared_hmac_md5_key
       /\ (arg.hmac_key_set = 1 /\ ret'.op = "hf_md5_init") =>
              \A key \in HashKeys :
                  hf_md5_generic(config, arg', key) = hf_md5_generic(config, arg, key)]_vars

\* a second MD5 function has been created and the first has hashed a key since
C26_Witness ==
    /\ ret.op = "hash" /\ arg.hf[ret.hf].type = "MD5"
    /\ Len(arg.hf) = 2 /\ arg.hf[1].type = "MD5" /\ arg.hf[2].type = "MD5"
    /\ arg.hmac_key_set = 1

RECURSIVE BigEndianValue(_, _, _)
\* the bytes key[i..j] read as one unsigned big-endian number (at most 4 bytes)
BigEndianValue(key, i, j) ==
    IF i > j THEN <<0, 0>>
    ELSE Add32(Shl8(BigEndianValue(key, i, j - 1)), <<0, key[j]>>)

RECURSIVE XorOfGroups(_, _)
\* the XOR over the groups of 4 bytes of key from position i on (the last group may be
\* shorter) of (v * 1664525 + 1013904223) mod 2^32
XorOfGroups(key, i) ==
    IF i > Len(key) THEN <<0, 0>>
    ELSE LET j == IF i + 3 > Len(key) THEN Len(key) ELSE i + 3
         IN  Xor32(Add32(Mul32(BigEndianValue(key, i, j), U32(1664525)), U32(1013904223)),
                   XorOfGroups(key, j + 1))

\* C23: for every byte string (bytes 0..255) hf_lcg_generic returns the XOR, over the
\* consecutive groups of 4 bytes and the shorter last group, of
\* (v * 1664525 + 1013904223) mod 2^32, v being the group read as an unsigned
\* big-endian number.
C23_LcgOfUnsignedGroups == (ret # << >>) => (ret = XorOfGroups(arg, 1))

\* the two connections are the same flow: identical, or one the reverse of the other
SameFlow(c1, c2) == (c1 = c2) \/ (c1 = Reversed(c2))

\* the canonical form of a connection as a list of unsigned numbers: the endpoint with
\* the smaller address (the smaller port when the addresses are equal) comes first
Canonical(c) ==
    IF Lt32(c.daddr, c.saddr) \/ (c.daddr = c.saddr /\ c.dport < c.sport)
    THEN <<c.daddr[1], c.daddr[2], c.saddr[1], c.saddr[2], c.dport, c.sport, c.proto>>
    ELSE <<c.saddr[1], c.saddr[2], c.daddr[1], c.daddr[2], c.sport, c.dport, c.proto>>

\* -1 when the list s is lexicographically larger than t, 1 when smaller, 0 when equal
LargerFirst(s, t) ==
    IF s = t THEN 0
    ELSE LET i == CHOOSE k \in 1..Len(s) : s[k] # t[k] /\ \A l \in 1..(k - 1) : s[l] = t[l]
         IN  IF s[i] > t[i] THEN -1 ELSE 1

C28_Uint32cmpSign ==
    (ret # << >>) =>
        /\ Lt32(arg[1], arg[2]) => ret[1] < 0
        /\ (arg[1] = arg[2]) => ret[1] = 0
        /\ Gt32(arg[1], arg[2]) => ret[1] > 0

\* C29: two tuples that conncmp finds equal have the same conn_marshall bytes, hence
\* the same hash value and the same bucket in a table of any size.
C29_EqualKeysOneBucket ==
    (ret # << >> /\ ret.cmp = 0) =>
        /\ ret.bytes[1] = ret.bytes[2]
        /\ Len(ret.bytes[1]) = ho_len("CONNECTION")
        /\ ret.hash[1] = ret.hash[2]
        /\ \A e \in 4..30 : AndMask(ret.hash[1], 2^e - 1) = AndMask(ret.hash[2], 2^e - 1)

\* a tuple and its reverse that differ in address and in port, compared and marshalled
C29_Witness ==
    /\ ret # << >> /\ ret.cmp = 0
    /\ arg[1] # arg[2]
    /\ arg[1].saddr # arg[1].daddr /\ arg[1].sport # arg[1].dport
    /\ Gt32(arg[1].saddr, arg[1].daddr) /\ arg[1].sport < arg[1].dport

\* C30: ht_raw_get_next reads the bucket array at indices 0..nbuckets-1 only, for
\* every stored previous item and every key (a non-NULL key with the last item of the
\* chain of bucket nbuckets-1 as previous item included).
C30_ReadsWithinArray ==
    (last.op = "get_next") => (last.reads \subseteq 0..(ht.nbuckets - 1))

\* item a stands before item b in the chain of bucket h
Before(t, h, a, b) ==
    \E chain \in {ChainOf(t, h)} :
        \E i, j \in DOMAIN chain : i < j /\ chain[i] = a /\ chain[j] = b

\* the last item of a sequence of items whose key matches
LastMatch(t, chain, key) ==
    chain[CHOOSE i \in DOMAIN chain :
              /\ KeyMatches(t, key, chain[i])
              /\ \A j \in (i + 1)..Len(chain) : ~KeyMatches(t, key, chain[j])]

\* of the items inserted since the last rebuild, the first inserted that matches the key
Oldest(t, key) ==
    recent[CHOOSE i \in DOMAIN recent :
               /\ recent[i] \in Stored(t, key, NoObj)
               /\ \A j \in 1..(i - 1) : recent[j] \notin Stored(t, key, NoObj)]

\* C31: ht_raw_rebuild reverses the chains: two items that share a bucket before the
\* rebuild and share one after it stand in the opposite order; so for a key with
\* several items ht_raw_lookup(key, NULL) returns after the rebuild the item of the key
\* that stood last in its chain, not the one it returned before, and this is the
\* oldest of them when they were all inserted since the rebuild before.
C31_RebuildReversesChains ==
    [][RebuildStep =>
           /\ \A a, b \in DOMAIN items :
                  (a # b /\ items[a].h = items[b].h /\ items'[a].h = items'[b].h) =>
                      (Before(T, items[a].h, a, b) <=> Before(Tnext, items'[a].h, b, a))
           /\ \A key \in KeyArgs \ {NoObj} :
                  \A found \in {Stored(T, key, NoObj)} :
                      (Cardinality(found) >= 2) =>
                          \A r \in {ht_raw_lookup(Tnext, key, NoObj)} :
                              /\ r = LastMatch(T, ChainOf(T, BucketOf(ht, key[1])), key)
                              /\ r # ht_raw_lookup(T, key, NoObj)
                              /\ (found \subseteq {recent[i] : i \in DOMAIN recent})
                                     => (r = Oldest(T, key))]_vars

\* a rebuild has run on a chain of three items, two of one key with an item of another
\* key among them
C31_Witness ==
    /\ pc = "idle" /\ last.op = "rebuild"
    /\ \E h \in DOMAIN bucket :
           \E chain \in {ChainOf(T, h)} :
               /\ Len(chain) = 3
               /\ \E i, j, k \in DOMAIN chain :
                      /\ i # j /\ items[chain[i]].key = items[chain[j]].key
                      /\ items[chain[k]].key # items[chain[i]].key

====
